---- MODULE Spec2Model ----
(***************************************************************************)
(* Slug lifecycle of the product catalog: AffiliateManager (clean_slug,    *)
(* validate_slug, check_slug_availability, suggest_slug,                   *)
(* bulk_update_slugs, generate_affiliate_url, analyze_slug_performance,    *)
(* export_slicewp_config), DataHandler (load_products, save_products,      *)
(* create_backup, cleanup_old_backups, update_product_slug,                *)
(* check_slug_uniqueness) and the handlers of app.py: Save Slug, in one    *)
(* session and step by step in two, Auto-Generate Slug, Analyze Slugs and  *)
(* SliceWP Config.                                                         *)
(*                                                                         *)
(* A Python str is a sequence of one-character strings.  The CSV file is   *)
(* the sequence of its data rows, each cell being the text between the     *)
(* separators; load_products parses that text the way pandas.read_csv      *)
(* does and save_products formats the table the way DataFrame.to_csv does. *)
(***************************************************************************)
EXTENDS Integers, Sequences, FiniteSets, TLC

VARIABLES
    file,    \* ./data/products.csv: [exists, rows], rows of [record_id, name, slug] text cells
    op,      \* what the handler of the current script run did (Idle before any handler)
    input,   \* the argument of the string function under test
    output,  \* what the string function returned
    sessions, \* per browser session, how far its Save Slug handler has got
    backups  \* ./data/backups: [writable, files], its backup files from the oldest on

vars == <<file, op, input, output, sessions, backups>>

(***************************************************************************)
(* Bounds                                                                  *)
(***************************************************************************)
\* longest text enumerated character by character
MaxTextLen == 4
\* longest batch handed to bulk_update_slugs
MaxBatch == 2

(***************************************************************************)
(* Characters and Python string primitives                                 *)
(***************************************************************************)
LowerCase == <<"a","b","c","d","e","f","g","h","i","j","k","l","m",
               "n","o","p","q","r","s","t","u","v","w","x","y","z">>
UpperCase == <<"A","B","C","D","E","F","G","H","I","J","K","L","M",
               "N","O","P","Q","R","S","T","U","V","W","X","Y","Z">>
Digits == {"0","1","2","3","4","5","6","7","8","9"}
\* the characters the class \s and str.strip() treat as whitespace
Whitespace == {" ", "\t", "\n", "\r"}
\* the character class [a-z0-9-]
SlugChars == {LowerCase[i] : i \in 1..26} \cup Digits \cup {"-"}

\* str.lower() on one character
LowerChar(c) ==
    IF \E i \in 1..26 : UpperCase[i] = c
    THEN LowerCase[CHOOSE i \in 1..26 : UpperCase[i] = c]
    ELSE c

\* str.lower()
Lower(s) == [i \in 1..Len(s) |-> LowerChar(s[i])]

\* str.strip(chars): drop the leading and the trailing characters that are in chars
Strip(s, chars) ==
    LET keep == {i \in 1..Len(s) : s[i] \notin chars}
    IN  IF keep = {} THEN <<>>
        ELSE SubSeq(s, CHOOSE i \in keep : \A j \in keep : i <= j,
                       CHOOSE i \in keep : \A j \in keep : i >= j)

\* the rest of s after its longest prefix made of chars
DropWhile(s, chars) ==
    LET keep == {i \in 1..Len(s) : s[i] \notin chars}
    IN  IF keep = {} THEN <<>>
        ELSE SubSeq(s, CHOOSE i \in keep : \A j \in keep : i <= j, Len(s))

\* re.sub(r'[chars]+', rep, s) for a one-character rep: every maximal run of
\* chars becomes rep ("" marks the positions the substitution drops)
SubRuns(s, chars, rep) ==
    LET marked == [i \in 1..Len(s) |->
                     IF s[i] \notin chars THEN s[i]
                     ELSE IF i = 1 \/ s[i - 1] \notin chars THEN rep
                     ELSE ""]
    IN  SelectSeq(marked, LAMBDA c : c # "")

\* re.sub(r'[^a-z0-9-]', '', s)
RemoveSpecial(s) == SelectSeq(s, LAMBDA c : c \in SlugChars)

\* re.match(r'^[a-z0-9-]+$', s): '$' matches at the end of the string and also
\* just before a newline that is the last character
MatchesSlugPattern(s) ==
    LET body == IF s # <<>> /\ s[Len(s)] = "\n" THEN SubSeq(s, 1, Len(s) - 1) ELSE s
    IN  body # <<>> /\ \A i \in 1..Len(body) : body[i] \in SlugChars

\* '--' in s
HasDoubleHyphen(s) == \E i \in 1..(Len(s) - 1) : s[i] = "-" /\ s[i + 1] = "-"

(***************************************************************************)
(* AffiliateManager.clean_slug                                             *)
(***************************************************************************)
\* the mutant: hyphens trimmed before the special characters are removed
clean_slug_TrimFirst(slug) ==
    IF slug = <<>> THEN <<>>
    ELSE SubRuns(RemoveSpecial(Strip(SubRuns(Strip(Lower(slug), Whitespace),
                                             Whitespace, "-"), {"-"})),
                 {"-"}, "-")

\* the mutant: runs of hyphens are not collapsed
clean_slug_NoCollapse(slug) ==
    IF slug = <<>> THEN <<>>
    ELSE Strip(RemoveSpecial(SubRuns(Strip(Lower(slug), Whitespace), Whitespace, "-")),
               {"-"})

clean_slug(slug) ==
    IF slug = <<>> THEN <<>>
    ELSE LET lowered   == Strip(Lower(slug), Whitespace)
             hyphened  == SubRuns(lowered, Whitespace, "-")
             stripped  == RemoveSpecial(hyphened)
             collapsed == SubRuns(stripped, {"-"}, "-")
         IN  Strip(collapsed, {"-"})

(***************************************************************************)
(* AffiliateManager.validate_slug                                          *)
(***************************************************************************)
MinSlugLen == 3
MaxSlugLen == 100

reserved_words ==
    { <<"a","d","m","i","n">>, <<"a","p","i">>, <<"w","w","w">>, <<"m","a","i","l">>,
      <<"f","t","p">>, <<"l","o","c","a","l","h","o","s","t">>, <<"r","o","o","t">>,
      <<"s","l","i","c","e","w","p">>, <<"a","f","f","i","l","i","a","t","e">>,
      <<"w","p","-","a","d","m","i","n">>, <<"w","p","-","c","o","n","t","e","n","t">>,
      <<"w","p","-","i","n","c","l","u","d","e","s">> }

\* a validator message: its fixed text and the slug its f-string interpolates
Message(text, arg) == [text |-> text, arg |-> arg]
NoMessage == Message("", <<>>)

MsgEmpty == Message("Slug cannot be empty", <<>>)
MsgTooShort == Message("Slug must be at least 3 characters long", <<>>)
MsgTooLong == Message("Slug cannot be longer than 100 characters", <<>>)
MsgChars == Message("Slug can only contain lowercase letters, numbers, and hyphens", <<>>)
MsgHyphenEnds == Message("Slug cannot start or end with a hyphen", <<>>)
MsgDoubleHyphen == Message("Slug cannot contain consecutive hyphens", <<>>)
MsgReserved(slug) == Message("'{slug}' is a reserved word and cannot be used", slug)
MsgValid == Message("Valid slug", <<>>)

Verdict(ok, message) == [ok |-> ok, message |-> message]

validate_slug(slug) ==
    IF slug = <<>> THEN Verdict(FALSE, MsgEmpty)
    ELSE IF Len(slug) < MinSlugLen THEN Verdict(FALSE, MsgTooShort)
    ELSE IF Len(slug) > MaxSlugLen THEN Verdict(FALSE, MsgTooLong)
    ELSE IF ~MatchesSlugPattern(slug) THEN Verdict(FALSE, MsgChars)
    ELSE IF slug[1] = "-" \/ slug[Len(slug)] = "-" THEN Verdict(FALSE, MsgHyphenEnds)
    ELSE IF HasDoubleHyphen(slug) THEN Verdict(FALSE, MsgDoubleHyphen)
    ELSE IF slug \in reserved_words THEN Verdict(FALSE, MsgReserved(slug))
    ELSE Verdict(TRUE, MsgValid)

(***************************************************************************)
(* DataHandler: the CSV file, pandas.read_csv and DataFrame.to_csv         *)
(***************************************************************************)
\* the product rows of the table, in table order
ProductIds == <<"1", "2">>
\* a record_id no row of the table has
UnknownId == "9"
\* Python None and the empty str, both falsy
None == ""

\* the cell texts read_csv reads as a missing value (its default na_values)
NaStrings ==
    { <<>>, <<"n","a","n">>, <<"n","u","l","l">>, <<"N","a","N">>, <<"N","A">>,
      <<"N","U","L","L">>, <<"N","o","n","e">>, <<"n","/","a">>, <<"N","/","A">>,
      <<"-","n","a","n">>, <<"-","N","a","N">>, <<"<","N","A",">">>,
      <<"#","N","/","A">>, <<"#","N","A">>, <<"#","N","/","A"," ","N","/","A">>,
      <<"-","1",".","#","I","N","D">>, <<"-","1",".","#","Q","N","A","N">>,
      <<"1",".","#","I","N","D">>, <<"1",".","#","Q","N","A","N">> }

IsDigits(s) == s # <<>> /\ \A i \in 1..Len(s) : s[i] \in Digits
\* text read_csv converts to an integer
IsInteger(text) == IsDigits(text)
\* text read_csv converts to a float: digits, a point, optional digits
IsFloat(text) ==
    \E k \in 2..Len(text) :
        /\ text[k] = "."
        /\ IsDigits(SubSeq(text, 1, k - 1))
        /\ \A i \in (k + 1)..Len(text) : text[i] \in Digits

\* s without its trailing characters that are in chars
TrimRight(s, chars) ==
    LET keep == {i \in 1..Len(s) : s[i] \notin chars}
    IN  IF keep = {} THEN <<>>
        ELSE SubSeq(s, 1, CHOOSE i \in keep : \A j \in keep : i >= j)

\* str() of the integer the digits denote: no leading zeros
IntRepr(digits) ==
    LET r == DropWhile(digits, {"0"}) IN IF r = <<>> THEN <<"0">> ELSE r

\* str() of the float a numeric text denotes: 0123 -> 123.0, 1.50 -> 1.5
FloatRepr(text) ==
    LET k    == IF IsInteger(text) THEN Len(text) + 1
                ELSE CHOOSE i \in 1..Len(text) : text[i] = "."
        frac == TrimRight(SubSeq(text, k + 1, Len(text)), {"0"})
    IN  IntRepr(SubSeq(text, 1, k - 1)) \o <<".">> \o (IF frac = <<>> THEN <<"0">> ELSE frac)

\* a value of the 'Name' or the 'URL Slug' column: NaN, a str, or a number (v is its str())
NaN == [k |-> "nan", v |-> <<>>]
Str(s) == [k |-> "str", v |-> s]
Num(s) == [k |-> "num", v |-> s]

\* the dtype read_csv infers for a column from its cell texts
ColumnDtype(cells) ==
    LET present == {i \in 1..Len(cells) : cells[i] \notin NaStrings}
    IN  IF Len(cells) = 0 THEN "object"
        ELSE IF present = {} THEN "float64"
        ELSE IF \A i \in present : IsInteger(cells[i])
             THEN (IF present = 1..Len(cells) THEN "int64" ELSE "float64")
        ELSE IF \A i \in present : IsInteger(cells[i]) \/ IsFloat(cells[i]) THEN "float64"
        ELSE "object"

\* the value read_csv gives a cell of a column of dtype dt
ParseCell(dt, text) ==
    IF text \in NaStrings THEN NaN
    ELSE IF dt = "int64" THEN Num(IntRepr(text))
    ELSE IF dt = "float64" THEN Num(FloatRepr(text))
    ELSE Str(text)

\* the text to_csv writes for a value: NaN is the empty cell
FormatCell(value) == IF value.k = "nan" THEN <<>> ELSE value.v

File(exists, rows) == [exists |-> exists, rows |-> rows]
Row(record_id, name, slug) == [record_id |-> record_id, name |-> name, slug |-> slug]

\* pd.DataFrame(): no rows and no columns
EmptyDataFrame == [columns |-> FALSE, dtype |-> "object", rows |-> <<>>]

\* the table read_csv returns once the dtypes of the 'URL Slug' and the 'Name'
\* column are inferred, without the rows that have no record_id
LoadedAs(f, dt, name_dt) ==
    [columns |-> TRUE, dtype |-> dt,
     rows |-> SelectSeq([i \in 1..Len(f.rows) |->
                           Row(IF f.rows[i].record_id = "" THEN "nan"
                               ELSE f.rows[i].record_id,
                               ParseCell(name_dt, f.rows[i].name),
                               ParseCell(dt, f.rows[i].slug))],
                        LAMBDA r : r.record_id \notin {"", "nan"})]

\* DataHandler.load_products
load_products(f) ==
    IF ~f.exists THEN EmptyDataFrame
    ELSE CHOOSE df \in {LoadedAs(f, dt, name_dt) :
                           dt \in {ColumnDtype([i \in 1..Len(f.rows) |-> f.rows[i].slug])},
                           name_dt \in {ColumnDtype([i \in 1..Len(f.rows) |-> f.rows[i].name])}} :
             TRUE

\* df.to_csv(self.data_path, index=False): the file the write leaves
to_csv(df) ==
    File(TRUE, [i \in 1..Len(df.rows) |->
                    Row(df.rows[i].record_id, FormatCell(df.rows[i].name),
                        FormatCell(df.rows[i].slug))])

\* cleanup_old_backups(keep_count=10)
keep_count == 10

\* the backup directory: whether it accepts files, and its products_backup_*.csv
\* files in the order of their creation times, the oldest first
Dir(writable, files) == [writable |-> writable, files |-> files]
\* a backup file: the timestamp of its name, counted in seconds, and the copy it holds
Backup(name, content) == [name |-> name, content |-> content]
\* what one call of save_products meets: tick is the number of seconds the clock
\* has advanced since the newest backup was named, write_ok is whether
\* products.csv accepts the write
Env(tick, write_ok) == [tick |-> tick, write_ok |-> write_ok]

\* datetime.now() at the call, in seconds: not before the newest backup
Now(dir, tick) ==
    IF dir.files = <<>> THEN 1 ELSE dir.files[Len(dir.files)].name + tick

\* the mutant: the keep_count oldest files stay
cleanup_old_backups_KeepOldest(dir) ==
    IF Len(dir.files) <= keep_count THEN dir
    ELSE Dir(dir.writable, SubSeq(dir.files, 1, keep_count))

\* DataHandler.cleanup_old_backups: the keep_count newest files stay
cleanup_old_backups(dir) ==
    IF Len(dir.files) <= keep_count THEN dir
    ELSE Dir(dir.writable,
             SubSeq(dir.files, Len(dir.files) - keep_count + 1, Len(dir.files)))

\* DataHandler.create_backup at second now: the directory it leaves.  A copy
\* onto the name of an existing backup replaces that backup.
create_backup(dir, f, now) ==
    \* no data file: nothing is copied and nothing is cleaned up
    IF ~f.exists THEN dir
    \* shutil.copy2 raises: caught, the directory is as it was
    ELSE IF ~dir.writable THEN dir
    ELSE cleanup_old_backups(
             Dir(dir.writable,
                 Append(SelectSeq(dir.files, LAMBDA b : b.name # now), Backup(now, f))))

\* DataHandler.save_products on the file f and the directory dir:
\* [success, file, backups]; a refused write leaves the file as it was
save_products(f, dir, df, env) ==
    [success |-> env.write_ok,
     file |-> IF env.write_ok THEN to_csv(df) ELSE f,
     backups |-> create_backup(dir, f, Now(dir, env.tick))]

\* the mutant: the except branch answers that the slug is unique
check_slug_uniqueness_ExceptTrue(f, slug, exclude_record_id) ==
    \E df \in {load_products(f)} :
        IF ~df.columns THEN TRUE
        ELSE IF df.dtype # "object" THEN TRUE
        ELSE \A i \in 1..Len(df.rows) :
                 \/ exclude_record_id # None /\ df.rows[i].record_id = exclude_record_id
                 \/ df.rows[i].slug.k = "nan"
                 \/ Lower(df.rows[i].slug.v) # Lower(slug)

\* DataHandler.check_slug_uniqueness
check_slug_uniqueness(f, slug, exclude_record_id) ==
    \E df \in {load_products(f)} :
        \* df['record_id'] / df['URL Slug'] on a frame without columns: KeyError, caught
        IF ~df.columns THEN FALSE
        \* .str on a column that is not of dtype object: AttributeError, caught
        ELSE IF df.dtype # "object" THEN FALSE
        \* slug.lower() is in none of the rows left by the exclusion and by dropna()
        ELSE \A i \in 1..Len(df.rows) :
                 \/ exclude_record_id # None /\ df.rows[i].record_id = exclude_record_id
                 \/ df.rows[i].slug.k = "nan"
                 \/ Lower(df.rows[i].slug.v) # Lower(slug)

\* AffiliateManager.check_slug_availability
check_slug_availability(f, slug, exclude_record_id) ==
    check_slug_uniqueness(f, slug, exclude_record_id)

(***************************************************************************)
(* AffiliateManager.suggest_slug                                           *)
(***************************************************************************)
\* a suggestion needs a cleaned name of at least this many characters
MinSuggestionLen == 3
\* the numbers tried as a suffix: range(2, 100)
FirstSuffix == 2
LastSuffix == 99

DigitChars == <<"0","1","2","3","4","5","6","7","8","9">>
\* str(i) for 0 <= i <= 999
Dec(i) ==
    IF i < 10 THEN <<DigitChars[i + 1]>>
    ELSE IF i < 100 THEN <<DigitChars[(i \div 10) + 1], DigitChars[(i % 10) + 1]>>
    ELSE <<DigitChars[(i \div 100) + 1], DigitChars[((i \div 10) % 10) + 1],
           DigitChars[(i % 10) + 1]>>
\* f"{suggested_slug}-{i}"
Numbered(base, i) == base \o <<"-">> \o Dec(i)
\* f"{suggested_slug}-{timestamp}"
Dated(base, today) == base \o <<"-">> \o today
\* the slugs whose availability was asked up to suffix n: the base, then the
\* numbered ones in order
Tried(base, n) ==
    <<base>> \o [k \in 1..(n - FirstSuffix + 1) |-> Numbered(base, k + FirstSuffix - 1)]

\* what suggest_slug returns and the slugs it asked the availability of, in order
Suggestion(slug, checked) == [slug |-> slug, checked |-> checked]

\* the numbers i of range(2, 100) for which base-i is available
FreeNumbers(f, base) ==
    {i \in FirstSuffix..LastSuffix : check_slug_availability(f, Numbered(base, i), None)}

\* what the loop over the numbers and the lines after it return: the loop returns
\* at the least free number, and the dated slug is returned when none is free
FirstFree(base, today, free) ==
    IF free # {}
    THEN LET first == CHOOSE i \in free : \A j \in free : i <= j
         IN  Suggestion(Numbered(base, first), Tried(base, first))
    ELSE Suggestion(Dated(base, today), Tried(base, LastSuffix))

\* the mutant: a cleaned name of any length is suggested
suggest_slug_NoMinLen(f, product_name, today) ==
    LET base == clean_slug(product_name.v)
    IN  IF product_name.k = "nan" \/ product_name.v = <<>> THEN Suggestion(<<>>, <<>>)
        ELSE IF check_slug_availability(f, base, None) THEN Suggestion(base, <<base>>)
        ELSE CHOOSE r \in {FirstFree(base, today, free) : free \in {FreeNumbers(f, base)}} :
                 TRUE

\* the mutant: the dated slug is checked too and dropped when it is taken
suggest_slug_CheckFallback(f, product_name, today) ==
    LET base == clean_slug(product_name.v)
    IN  IF product_name.k = "nan" \/ product_name.v = <<>> THEN Suggestion(<<>>, <<>>)
        ELSE IF Len(base) < MinSuggestionLen THEN Suggestion(<<>>, <<>>)
        ELSE IF check_slug_availability(f, base, None) THEN Suggestion(base, <<base>>)
        ELSE CHOOSE r \in {IF free # {} THEN FirstFree(base, today, free)
                            ELSE Suggestion(IF check_slug_availability(f, Dated(base, today),
                                                                       None)
                                            THEN Dated(base, today) ELSE <<>>,
                                            Append(Tried(base, LastSuffix),
                                                   Dated(base, today))) :
                            free \in {FreeNumbers(f, base)}} : TRUE

\* AffiliateManager.suggest_slug; product_name is a value of the 'Name' column
\* and today is datetime.now().strftime("%m%d")
suggest_slug(f, product_name, today) ==
    LET base == clean_slug(product_name.v)
    IN  IF product_name.k = "nan" \/ product_name.v = <<>> THEN Suggestion(<<>>, <<>>)
        ELSE IF Len(base) < MinSuggestionLen THEN Suggestion(<<>>, <<>>)
        ELSE IF check_slug_availability(f, base, None) THEN Suggestion(base, <<base>>)
        ELSE CHOOSE r \in {FirstFree(base, today, free) : free \in {FreeNumbers(f, base)}} :
                 TRUE

\* the mutant: a record_id that no row has does not raise, the table is saved as
\* it was loaded
update_product_slug_NoRaise(f, dir, record_id, new_slug, env) ==
    LET df == load_products(f)
        mask == {i \in 1..Len(df.rows) : df.rows[i].record_id = record_id}
        updated == [i \in 1..Len(df.rows) |->
                      IF i \in mask
                      THEN Row(df.rows[i].record_id, df.rows[i].name, Str(new_slug))
                      ELSE df.rows[i]]
    IN  IF ~df.columns THEN [success |-> FALSE, file |-> f, backups |-> dir]
        ELSE save_products(f, dir, [df EXCEPT !.rows = updated], env)

\* DataHandler.update_product_slug: [success, file, backups].  The handlers call it only
\* after check_slug_uniqueness returned true, that is on a column of dtype object,
\* where df.loc[mask, 'URL Slug'] = new_slug stores the str as it is.
update_product_slug(f, dir, record_id, new_slug, env) ==
    LET df == load_products(f)
        mask == {i \in 1..Len(df.rows) : df.rows[i].record_id = record_id}
        updated == [i \in 1..Len(df.rows) |->
                      IF i \in mask
                      THEN Row(df.rows[i].record_id, df.rows[i].name, Str(new_slug))
                      ELSE df.rows[i]]
    IN  \* KeyError on a frame without columns, ValueError when no row matches: caught
        IF ~df.columns \/ mask = {} THEN [success |-> FALSE, file |-> f, backups |-> dir]
        ELSE save_products(f, dir, [df EXCEPT !.rows = updated], env)

(***************************************************************************)
(* AffiliateManager.generate_affiliate_url and export_slicewp_config       *)
(***************************************************************************)
\* base_url: "https://entremotivator.com"
BaseUrl == <<"h","t","t","p","s",":","/","/","e","n","t","r","e","m","o","t","i","v",
             "a","t","o","r",".","c","o","m">>
\* "/slicewp_affiliate/"
AffiliatePath == <<"/","s","l","i","c","e","w","p","_","a","f","f","i","l","i","a","t","e","/">>
\* the placeholder the template keeps: "{affiliate_id}"
AffiliateIdPlaceholder == <<"{","a","f","f","i","l","i","a","t","e","_","i","d","}">>
\* base_commission_rate
DefaultCommissionRate == 10

\* bool(value) of a value of the table: a number is true unless it is zero
Truthy(value) ==
    /\ value.k # "nan"
    /\ value.v # <<>>
    /\ value.k = "num" => \E i \in 1..Len(value.v) : value.v[i] \notin {"0", "."}

\* AffiliateManager.generate_affiliate_url; <<>> stands for None, as argument
\* and as result
generate_affiliate_url(product_slug, affiliate_id) ==
    IF ~Truthy(product_slug) THEN <<>>
    ELSE IF affiliate_id # <<>>
         THEN BaseUrl \o AffiliatePath \o affiliate_id \o <<"/">>
                      \o clean_slug(product_slug.v) \o <<"/">>
    ELSE BaseUrl \o <<"/">> \o clean_slug(product_slug.v) \o <<"/">>

\* product_config of one row
ProductConfig(product) ==
    [id |-> product.record_id,
     name |-> product.name,
     slug |-> product.slug,
     direct_url |-> BaseUrl \o <<"/">> \o product.slug.v \o <<"/">>,
     affiliate_url_template |->
         BaseUrl \o AffiliatePath \o AffiliateIdPlaceholder \o <<"/">>
                 \o product.slug.v \o <<"/">>,
     commission_rate |-> DefaultCommissionRate]

\* AffiliateManager.export_slicewp_config: config['products']
export_slicewp_config(df) ==
    LET listed == SelectSeq(df.rows, LAMBDA product : Truthy(product.slug))
    IN  [i \in 1..Len(listed) |-> ProductConfig(listed[i])]

(***************************************************************************)
(* AffiliateManager.bulk_update_slugs and the Save Slug handler            *)
(***************************************************************************)
Update(record_id, new_slug) == [record_id |-> record_id, new_slug |-> new_slug]
\* an error: its fixed text and the validator message it carries
Error(text, message) == [text |-> text, message |-> message]
\* 'error': None
NoError == Error("None", NoMessage)
Result(record_id, success, error) ==
    [record_id |-> record_id, success |-> success, error |-> error]
\* one pass of a handler over one proposal: the file before and after it, and
\* whether update_product_slug was called
Step(before, after, wrote) == [before |-> before, after |-> after, wrote |-> wrote]

ErrMissing == Error("Missing record_id or new_slug", NoMessage)
ErrInvalid(message) == Error("Invalid slug: ", message)
ErrTaken == Error("Slug already exists", NoMessage)
ErrDatabase == Error("Failed to update database", NoMessage)

\* what a handler has done so far: dirs is the backup directory as it was at the
\* start and as each proposal left it
Outcome(f, results, steps, dirs) ==
    [file |-> f, results |-> results, steps |-> steps, dirs |-> dirs]

\* the mutant: the item is written without the availability check
BulkItem_NoAvailability(acc, update, env) ==
    LET f == acc.file
        dir == acc.dirs[Len(acc.dirs)]
        verdict == validate_slug(update.new_slug)
        written == update_product_slug(f, dir, update.record_id, update.new_slug, env)
        Fail(error) == Outcome(f, Append(acc.results, Result(update.record_id, FALSE, error)),
                               Append(acc.steps, Step(f, f, FALSE)), Append(acc.dirs, dir))
    IN  IF update.record_id = None \/ update.new_slug = <<>> THEN Fail(ErrMissing)
        ELSE IF ~verdict.ok THEN Fail(ErrInvalid(verdict.message))
        ELSE Outcome(written.file,
                     Append(acc.results,
                            Result(update.record_id, written.success,
                                   IF written.success THEN NoError ELSE ErrDatabase)),
                     Append(acc.steps, Step(f, written.file, TRUE)),
                     Append(acc.dirs, written.backups))

\* the mutant: an item with a missing field is skipped without a result
BulkItem_DropMissing(acc, update, env) ==
    LET f == acc.file
        dir == acc.dirs[Len(acc.dirs)]
        verdict == validate_slug(update.new_slug)
        written == update_product_slug(f, dir, update.record_id, update.new_slug, env)
        Fail(error) == Outcome(f, Append(acc.results, Result(update.record_id, FALSE, error)),
                               Append(acc.steps, Step(f, f, FALSE)), Append(acc.dirs, dir))
    IN  IF update.record_id = None \/ update.new_slug = <<>> THEN acc
        ELSE IF ~verdict.ok THEN Fail(ErrInvalid(verdict.message))
        ELSE IF ~check_slug_availability(f, update.new_slug, update.record_id)
             THEN Fail(ErrTaken)
        ELSE Outcome(written.file,
                     Append(acc.results,
                            Result(update.record_id, written.success,
                                   IF written.success THEN NoError ELSE ErrDatabase)),
                     Append(acc.steps, Step(f, written.file, TRUE)),
                     Append(acc.dirs, written.backups))

\* the mutant: availability is checked before validity
BulkItem_AvailabilityFirst(acc, update, env) ==
    LET f == acc.file
        dir == acc.dirs[Len(acc.dirs)]
        verdict == validate_slug(update.new_slug)
        written == update_product_slug(f, dir, update.record_id, update.new_slug, env)
        Fail(error) == Outcome(f, Append(acc.results, Result(update.record_id, FALSE, error)),
                               Append(acc.steps, Step(f, f, FALSE)), Append(acc.dirs, dir))
    IN  IF update.record_id = None \/ update.new_slug = <<>> THEN Fail(ErrMissing)
        ELSE IF ~check_slug_availability(f, update.new_slug, update.record_id)
             THEN Fail(ErrTaken)
        ELSE IF ~verdict.ok THEN Fail(ErrInvalid(verdict.message))
        ELSE Outcome(written.file,
                     Append(acc.results,
                            Result(update.record_id, written.success,
                                   IF written.success THEN NoError ELSE ErrDatabase)),
                     Append(acc.steps, Step(f, written.file, TRUE)),
                     Append(acc.dirs, written.backups))

\* the mutant: a failed update_product_slug is called a second time
BulkItem_Retry(acc, update, env) ==
    LET f == acc.file
        dir == acc.dirs[Len(acc.dirs)]
        verdict == validate_slug(update.new_slug)
        first == update_product_slug(f, dir, update.record_id, update.new_slug, env)
        written == IF first.success THEN first
                   ELSE update_product_slug(first.file, first.backups, update.record_id,
                                            update.new_slug, env)
        Fail(error) == Outcome(f, Append(acc.results, Result(update.record_id, FALSE, error)),
                               Append(acc.steps, Step(f, f, FALSE)), Append(acc.dirs, dir))
    IN  IF update.record_id = None \/ update.new_slug = <<>> THEN Fail(ErrMissing)
        ELSE IF ~verdict.ok THEN Fail(ErrInvalid(verdict.message))
        ELSE IF ~check_slug_availability(f, update.new_slug, update.record_id)
             THEN Fail(ErrTaken)
        ELSE Outcome(written.file,
                     Append(acc.results,
                            Result(update.record_id, written.success,
                                   IF written.success THEN NoError ELSE ErrDatabase)),
                     Append(acc.steps, Step(f, written.file, TRUE)),
                     Append(acc.dirs, written.backups))

\* one iteration of the loop of bulk_update_slugs
BulkItem(acc, update, env) ==
    LET f == acc.file
        dir == acc.dirs[Len(acc.dirs)]
        verdict == validate_slug(update.new_slug)
        written == update_product_slug(f, dir, update.record_id, update.new_slug, env)
        Fail(error) == Outcome(f, Append(acc.results, Result(update.record_id, FALSE, error)),
                               Append(acc.steps, Step(f, f, FALSE)), Append(acc.dirs, dir))
    IN  IF update.record_id = None \/ update.new_slug = <<>> THEN Fail(ErrMissing)
        ELSE IF ~verdict.ok THEN Fail(ErrInvalid(verdict.message))
        ELSE IF ~check_slug_availability(f, update.new_slug, update.record_id)
             THEN Fail(ErrTaken)
        ELSE Outcome(written.file,
                     Append(acc.results,
                            Result(update.record_id, written.success,
                                   IF written.success THEN NoError ELSE ErrDatabase)),
                     Append(acc.steps, Step(f, written.file, TRUE)),
                     Append(acc.dirs, written.backups))

RECURSIVE BulkLoop(_, _, _, _)
\* for update in updates, from the i-th on; envs[i] is what the i-th meets
BulkLoop(acc, updates, envs, i) ==
    IF i > Len(updates) THEN acc
    ELSE BulkLoop(BulkItem(acc, updates[i], envs[i]), updates, envs, i + 1)

\* AffiliateManager.bulk_update_slugs
bulk_update_slugs(f, dir, updates, envs) ==
    BulkLoop(Outcome(f, <<>>, <<>>, <<dir>>), updates, envs, 1)

\* the Save Slug button of app.py: the message it shows is the result's error
save_slug(f, dir, record_id, new_slug, env) ==
    LET verdict == validate_slug(new_slug)
        written == update_product_slug(f, dir, record_id, new_slug, env)
        Fail(error) == Outcome(f, <<Result(record_id, FALSE, error)>>, <<Step(f, f, FALSE)>>,
                               <<dir, dir>>)
    IN  IF new_slug = <<>> THEN Fail(Error("Please enter a slug", NoMessage))
        ELSE IF ~verdict.ok THEN Fail(Error("", verdict.message))
        ELSE IF ~check_slug_availability(f, new_slug, record_id) THEN Fail(ErrTaken)
        ELSE Outcome(written.file,
                     <<Result(record_id, written.success,
                              IF written.success THEN NoError
                              ELSE Error("Failed to update slug", NoMessage))>>,
                     <<Step(f, written.file, TRUE)>>, <<dir, written.backups>>)

(***************************************************************************)
(* AffiliateManager.analyze_slug_performance                               *)
(***************************************************************************)
\* not (pd.isna(slug) or slug == '')
HasSlug(value) == value.k # "nan" /\ value.v # <<>>
\* validate_slug on a value of the table raises TypeError: a number that is not
\* zero passes 'if not slug' and has no len()
ValidateRaises(value) == value.k = "num" /\ Truthy(value)
\* validate_slug on a value of the table that it does not raise on: the number
\* zero is falsy
ValidateValue(value) ==
    IF value.k = "num" THEN Verdict(FALSE, MsgEmpty) ELSE validate_slug(value.v)

RECURSIVE CountDuplicates(_, _)
\* analysis['duplicate_slugs'] after the first i of the slugs: 2 more when a
\* slug is met for the second time, 1 more each time after that
CountDuplicates(slugs, i) ==
    IF i = 0 THEN 0
    ELSE LET seen == Cardinality({j \in 1..(i - 1) : slugs[j] = slugs[i]})
         IN  CountDuplicates(slugs, i - 1)
                 + (IF seen = 0 THEN 0 ELSE IF seen = 1 THEN 2 ELSE 1)

\* what the call leaves: raised when an exception leaves the function
Analysis(raised, total, with, without, duplicates, invalid, suggestions) ==
    [raised |-> raised, total_products |-> total, products_with_slugs |-> with,
     products_without_slugs |-> without, duplicate_slugs |-> duplicates,
     invalid_slugs |-> invalid, suggestions |-> suggestions,
     completion_rate |-> IF total > 0 THEN [num |-> with * 100, den |-> total]
                         ELSE [num |-> 0, den |-> 1]]

\* AffiliateManager.analyze_slug_performance(df), called on the date today with
\* the file f in place
analyze_slug_performance(f, df, today) ==
    LET rows    == df.rows
        slugged == SelectSeq(rows, LAMBDA product : HasSlug(product.slug))
        invalid == SelectSeq(slugged, LAMBDA product : ~ValidateValue(product.slug).ok)
        \* the products a suggestion is asked for, in table order
        asked   == SelectSeq(rows, LAMBDA product :
                                 ~HasSlug(product.slug) \/ ~ValidateValue(product.slug).ok)
        offers  == [i \in 1..Len(asked) |->
                      [record_id |-> asked[i].record_id,
                       product_name |-> asked[i].name,
                       suggested_slug |-> suggest_slug(f, asked[i].name, today).slug,
                       reason |-> IF ~HasSlug(asked[i].slug) THEN Error("Missing slug", NoMessage)
                                  ELSE ErrInvalid(ValidateValue(asked[i].slug).message)]]
    IN  IF \E i \in 1..Len(rows) : ValidateRaises(rows[i].slug)
        THEN Analysis(TRUE, Len(rows), 0, 0, 0, 0, <<>>)
        ELSE Analysis(FALSE, Len(rows), Len(slugged), Len(rows) - Len(slugged),
                      CountDuplicates([i \in 1..Len(slugged) |-> slugged[i].slug],
                                      Len(slugged)),
                      Len(invalid),
                      SelectSeq(offers, LAMBDA offer : offer.suggested_slug # <<>>))

(***************************************************************************)
(* Inputs                                                                  *)
(***************************************************************************)
SlugAbc == <<"a","b","c">>
SlugAbcUpper == <<"A","b","c">>
SlugAb == <<"a","b">>
Slug123 == <<"1","2","3">>
Slug0123 == <<"0","1","2","3">>
SlugNan == <<"n","a","n">>
SlugApi == <<"a","p","i">>
SlugXyz == <<"x","y","z">>

NameAbc == <<"A","b","c">>
\* the 'Name' cells of the product rows, in table order: the second is empty
ProductNames == <<NameAbc, <<>>>>

\* the 'URL Slug' cells of the products.csv the application starts from
InitCells == {<<>>, SlugAbc, SlugAbcUpper, Slug123}
\* the slugs proposed to the handlers
SlugInputs == {<<>>, SlugAb, SlugAbc, Slug123, Slug0123, SlugNan}
\* the slugs typed into the text input of the detail page
TypedSlugs == SlugInputs \cup {SlugAbcUpper, SlugApi}
RecordIdInputs == {None, UnknownId} \cup {ProductIds[i] : i \in 1..Len(ProductIds)}
UpdateInputs == {Update(r, s) : r \in RecordIdInputs, s \in SlugInputs}
Batches == UNION {[1..n -> UpdateInputs] : n \in 0..MaxBatch}

InitFiles ==
    {File(FALSE, <<>>)} \cup
    UNION { {File(TRUE, [i \in 1..n |-> Row(ProductIds[i], ProductNames[i], cells[i])]) :
                cells \in [1..n -> InitCells]} : n \in 0..Len(ProductIds) }

SlugAbc2 == <<"a","b","c","-","2">>
\* the names handed to suggest_slug: a missing and an empty one, names that
\* clean to 'abc', 'ab', 'a-b' and to nothing, a name that cleans to the
\* reserved word 'api' and a name of 101 letters
NameInputs ==
    { NaN, Str(<<>>), Str(NameAbc), Str(<<"A","b">>), Str(<<"A"," ","b","!">>),
      Str(<<"!","!","!">>), Str(<<"A","p","i">>),
      Str([i \in 1..(MaxSlugLen + 1) |-> "a"]) }
\* the dates datetime.now() is drawn from, as %m%d
Dates == { <<"0","1","0","1">>, <<"1","1","0","2">> }
\* a catalog in which 'abc' and every numbered 'abc-i' is taken, and with it
\* the slugs given in extra
FullStore(extra) ==
    File(TRUE, [i \in 1..(LastSuffix + Len(extra)) |->
                  Row(ToString(i), NameAbc,
                      IF i = 1 THEN SlugAbc
                      ELSE IF i <= LastSuffix THEN Numbered(SlugAbc, i)
                      ELSE extra[i - LastSuffix])])
\* the catalogs a suggestion is asked on
SuggestFiles ==
    InitFiles
    \cup { File(TRUE, <<Row("1", NameAbc, SlugAbc), Row("2", <<>>, SlugAbc2)>>),
           FullStore(<<Dated(SlugAbc, <<"1","1","0","2">>)>>) }

\* the characters texts are enumerated over
TextAlphabet == {"a", "1", "-", "A", " ", "\n", "!"}
Repeat(c, n) == [i \in 1..n |-> c]
\* texts around the length limit
LongTexts ==
    {Repeat(c, n) : c \in {"a", "-", "A"}, n \in (MaxSlugLen - 1)..(MaxSlugLen + 1)}
TextInputs ==
    UNION {[1..n -> TextAlphabet] : n \in 0..MaxTextLen} \cup LongTexts \cup reserved_words

(***************************************************************************)
(* Browser sessions: the Save Slug handler step by step                    *)
(***************************************************************************)
\* the browser sessions that have the application open
SessionIds == {"A", "B"}

\* a session: pc is where its Save Slug handler is (idle: not pressed, checked:
\* check_slug_availability returned true, loaded: update_product_slug holds the
\* changed table, done: the handler returned), df the table it holds
Session(pc, record_id, new_slug, df, success) ==
    [pc |-> pc, record_id |-> record_id, new_slug |-> new_slug, df |-> df,
     success |-> success]
Waiting == Session("idle", None, <<>>, EmptyDataFrame, FALSE)
NoSessions == [s \in SessionIds |-> Waiting]

\* the outcomes of df.loc[mask, 'URL Slug'] = new_slug after the lookup of the
\* row: a str assigned into a numeric column is stored by a pandas that upcasts
\* the column and raises in a pandas that refuses to
AssignOutcomes(df, record_id) ==
    IF ~df.columns \/ \A i \in 1..Len(df.rows) : df.rows[i].record_id # record_id
    THEN {"raised"}
    ELSE IF df.dtype = "object" THEN {"stored"}
    ELSE {"stored", "raised"}

\* the table after df.loc[mask, 'URL Slug'] = new_slug
AssignSlug(df, record_id, new_slug) ==
    [df EXCEPT !.dtype = "object",
               !.rows = [i \in 1..Len(df.rows) |->
                           IF df.rows[i].record_id = record_id
                           THEN Row(df.rows[i].record_id, df.rows[i].name, Str(new_slug))
                           ELSE df.rows[i]]]

\* the slugs typed into the text input by the sessions
SessionSlugs == {SlugAbc, Slug123, SlugXyz}

(***************************************************************************)
(* The application: one handler per script run                             *)
(***************************************************************************)
\* a backup directory that accepts no file: every copy into it raises
NoBackups == Dir(FALSE, <<>>)

Idle == [kind |-> "idle", updates |-> <<>>, results |-> <<>>, steps |-> <<>>]
NoOutput == [fn |-> "none", text |-> <<>>, verdict |-> Verdict(FALSE, NoMessage)]

Init ==
    /\ file \in InitFiles
    /\ op = Idle
    /\ input = <<>>
    /\ output = NoOutput
    /\ sessions = NoSessions
    /\ backups = NoBackups

\* the ids of the products in the file
ListedIds(f) == {load_products(f).rows[i].record_id : i \in 1..Len(load_products(f).rows)}
\* the ids of the products the page lists: those of the table load_data cached,
\* which are the file's unless the file has become unreadable since
CachedIds(f) ==
    IF load_products(f).columns THEN ListedIds(f)
    ELSE {ProductIds[i] : i \in 1..Len(ProductIds)}

\* bulk_update_slugs(updates)
BulkUpdateSlugs(updates, envs) ==
    /\ op = Idle
    /\ \E r \in {bulk_update_slugs(file, backups, updates, envs)} :
           /\ file' = r.file
           /\ backups' = r.dirs[Len(r.dirs)]
           /\ op' = [kind |-> "bulk", updates |-> updates,
                     results |-> r.results, steps |-> r.steps,
                     envs |-> envs, dirs |-> r.dirs]
    /\ UNCHANGED <<input, output, sessions>>

\* the Save Slug button, pressed on the page of a listed product
SaveSlug(record_id, new_slug, env) ==
    /\ op = Idle
    /\ record_id \in CachedIds(file)
    /\ \E r \in {save_slug(file, backups, record_id, new_slug, env)} :
           /\ file' = r.file
           /\ backups' = r.dirs[Len(r.dirs)]
           /\ op' = [kind |-> "save", updates |-> <<Update(record_id, new_slug)>>,
                     results |-> r.results, steps |-> r.steps,
                     envs |-> <<env>>, dirs |-> r.dirs]
    /\ UNCHANGED <<input, output, sessions>>

\* the mutant: the check saves the table it loaded
CheckSlugAvailability_Saves(slug, exclude_record_id) ==
    /\ op = Idle
    /\ op' = [kind |-> "check", updates |-> <<Update(exclude_record_id, slug)>>,
              results |-> <<Result(exclude_record_id,
                                   check_slug_availability(file, slug, exclude_record_id),
                                   NoError)>>,
              steps |-> <<Step(file, file, FALSE)>>]
    /\ \E saved \in {save_products(file, backups, load_products(file), Env(1, TRUE))} :
           file' = saved.file /\ backups' = saved.backups
    /\ UNCHANGED <<input, output, sessions>>

\* check_slug_availability(slug, exclude_record_id), None for no exclusion
CheckSlugAvailability(slug, exclude_record_id) ==
    /\ op = Idle
    /\ op' = [kind |-> "check", updates |-> <<Update(exclude_record_id, slug)>>,
              results |-> <<Result(exclude_record_id,
                                   check_slug_availability(file, slug, exclude_record_id),
                                   NoError)>>,
              steps |-> <<Step(file, file, FALSE)>>]
    /\ UNCHANGED <<file, input, output, sessions, backups>>

\* the SliceWP Config button, on a page that lists products
ExportSlicewpConfig ==
    /\ op = Idle
    /\ load_products(file).rows # <<>>
    /\ op' = [kind |-> "export", updates |-> <<>>, results |-> <<>>, steps |-> <<>>,
              products |-> export_slicewp_config(load_products(file))]
    /\ UNCHANGED <<file, input, output, sessions, backups>>

\* the script run ends and the page waits for the next interaction
Rerun ==
    /\ op # Idle
    /\ op' = Idle
    /\ UNCHANGED <<file, input, output, sessions, backups>>

\* what n saves in a row meet when products.csv accepts every write and a
\* second passes between the saves
Healthy(n) == [i \in 1..n |-> Env(1, TRUE)]

\* the inputs a handler can be given: none once the script run has run a handler
Offered(inputs) == IF op = Idle THEN inputs ELSE {}

Next ==
    \/ \E updates \in Offered(Batches) : BulkUpdateSlugs(updates, Healthy(Len(updates)))
    \/ \E r \in Offered(RecordIdInputs), s \in TypedSlugs : SaveSlug(r, s, Env(1, TRUE))
    \/ \E r \in Offered(RecordIdInputs), s \in TypedSlugs \ {<<>>} :
            CheckSlugAvailability(s, r)
    \/ ExportSlicewpConfig
    \/ Rerun

Spec == Init /\ [][Next]_vars

(***************************************************************************)
(* Two sessions, each pressing Save Slug once                              *)
(***************************************************************************)
\* a products.csv in which no two products have the same slug
InitSessions ==
    /\ file \in {f \in InitFiles : \A i, j \in 1..Len(f.rows) :
                      i # j => Lower(f.rows[i].slug) # Lower(f.rows[j].slug) \/ f.rows[i].slug = <<>>}
    /\ op = Idle
    /\ input = <<>>
    /\ output = NoOutput
    /\ sessions = NoSessions
    /\ backups = NoBackups

\* the mutant: the handler does not ask whether the slug is available
SessionCheck_NoAvailability(s, record_id, new_slug) ==
    /\ sessions[s].pc = "idle"
    /\ record_id \in ListedIds(file)
    /\ LET passed == new_slug # <<>> /\ validate_slug(new_slug).ok
       IN  sessions' = [sessions EXCEPT
                          ![s] = Session(IF passed THEN "checked" ELSE "done",
                                         record_id, new_slug, EmptyDataFrame, FALSE)]
    /\ UNCHANGED <<file, op, input, output, backups>>

\* Save Slug pressed in session s on the page of a listed product: the handler
\* up to the return of check_slug_availability
SessionCheck(s, record_id, new_slug) ==
    /\ sessions[s].pc = "idle"
    /\ record_id \in ListedIds(file)
    /\ LET passed == /\ new_slug # <<>>
                     /\ validate_slug(new_slug).ok
                     /\ check_slug_availability(file, new_slug, record_id)
       IN  sessions' = [sessions EXCEPT
                          ![s] = Session(IF passed THEN "checked" ELSE "done",
                                         record_id, new_slug, EmptyDataFrame, FALSE)]
    /\ UNCHANGED <<file, op, input, output, backups>>

\* update_product_slug in session s, from load_products to the assignment
SessionLoad(s) ==
    /\ sessions[s].pc = "checked"
    /\ LET df == load_products(file)
           me == sessions[s]
       IN  \E outcome \in AssignOutcomes(df, me.record_id) :
               sessions' = [sessions EXCEPT
                              ![s] = IF outcome = "stored"
                                     THEN Session("loaded", me.record_id, me.new_slug,
                                                  AssignSlug(df, me.record_id, me.new_slug),
                                                  FALSE)
                                     ELSE Session("done", me.record_id, me.new_slug,
                                                  EmptyDataFrame, FALSE)]
    /\ UNCHANGED <<file, op, input, output, backups>>

\* the mutant: the save writes only the session's own row into the file as it is
SessionSave_OwnRowOnly(s, env) ==
    /\ sessions[s].pc = "loaded"
    /\ \E saved \in {save_products(file, backups,
                                     AssignSlug(load_products(file), sessions[s].record_id,
                                                sessions[s].new_slug), env)} :
           /\ file' = saved.file
           /\ backups' = saved.backups
           /\ sessions' = [sessions EXCEPT
                              ![s] = Session("done", sessions[s].record_id,
                                             sessions[s].new_slug, EmptyDataFrame,
                                             saved.success)]
    /\ UNCHANGED <<op, input, output>>

\* update_product_slug in session s, from save_products to its return
SessionSave(s, env) ==
    /\ sessions[s].pc = "loaded"
    /\ \E saved \in {save_products(file, backups, sessions[s].df, env)} :
           /\ file' = saved.file
           /\ backups' = saved.backups
           /\ sessions' = [sessions EXCEPT
                              ![s] = Session("done", sessions[s].record_id,
                                             sessions[s].new_slug, EmptyDataFrame,
                                             saved.success)]
    /\ UNCHANGED <<op, input, output>>

NextSessions ==
    \/ \E s \in SessionIds, r \in RecordIdInputs, t \in SessionSlugs : SessionCheck(s, r, t)
    \/ \E s \in SessionIds : SessionLoad(s)
    \/ \E s \in SessionIds : SessionSave(s, Env(1, TRUE))

SpecSessions == InitSessions /\ [][NextSessions]_vars

(***************************************************************************)
(* The Auto-Generate Slug button                                           *)
(***************************************************************************)
InitSuggest ==
    /\ file \in SuggestFiles
    /\ op = Idle
    /\ input = <<>>
    /\ output = NoOutput
    /\ sessions = NoSessions
    /\ backups = NoBackups

\* suggest_slug(product_name), pressed on the date today: updates and results
\* record the availability checks it made, each of which was false unless it
\* is the one whose slug was returned
SuggestSlug(product_name, today) ==
    /\ op = Idle
    /\ \E r \in {suggest_slug(file, product_name, today)} :
           op' = [kind |-> "suggest",
                  updates |-> [i \in 1..Len(r.checked) |-> Update(None, r.checked[i])],
                  results |-> [i \in 1..Len(r.checked) |->
                                 Result(None, r.checked[i] = r.slug, NoError)],
                  steps |-> <<>>,
                  name |-> product_name, today |-> today, slug |-> r.slug]
    /\ UNCHANGED <<file, input, output, sessions, backups>>

NextSuggest ==
    \/ \E n \in Offered(NameInputs), d \in Dates : SuggestSlug(n, d)
    \/ Rerun

SpecSuggest == InitSuggest /\ [][NextSuggest]_vars

(***************************************************************************)
(* The string functions as handlers                                        *)
(***************************************************************************)
CleanSlug ==
    /\ output = NoOutput
    /\ output' = [fn |-> "clean_slug", text |-> clean_slug(input),
                  verdict |-> Verdict(FALSE, NoMessage)]
    /\ UNCHANGED <<file, op, input, sessions, backups>>

ValidateSlug ==
    /\ output = NoOutput
    /\ output' = [fn |-> "validate_slug", text |-> <<>>, verdict |-> validate_slug(input)]
    /\ UNCHANGED <<file, op, input, sessions, backups>>

(***************************************************************************)
(* One script run on a catalog with its backup directory, on a disk that   *)
(* may refuse the write                                                    *)
(***************************************************************************)
\* longest batch handed to bulk_update_slugs on these catalogs
MaxStoreBatch == 2

\* no products.csv, a catalog of one product, a catalog of two of which one
\* has no slug
StoreFiles ==
    { File(FALSE, <<>>),
      File(TRUE, <<Row("1", NameAbc, SlugAbc)>>),
      File(TRUE, <<Row("1", NameAbc, SlugAbc), Row("2", NameAbc, <<>>)>>) }
\* n backups made one second after the other, each of an earlier catalog
Preloaded(n) ==
    [i \in 1..n |-> Backup(i, File(TRUE, <<Row("1", NameAbc, Numbered(SlugAbc, i))>>))]
\* the backup directory: refusing files, empty, one short of full, full
StoreDirs ==
    { NoBackups, Dir(TRUE, <<>>), Dir(TRUE, Preloaded(keep_count - 1)),
      Dir(TRUE, Preloaded(keep_count)) }
\* a save in the second of the newest backup or a second later, written or refused
StoreEnvs == {Env(tick, write_ok) : tick \in 0..1, write_ok \in BOOLEAN}
\* proposals for the two products and for a record_id no product has, and an
\* invalid one
StoreUpdates ==
    { Update("1", SlugXyz), Update("2", SlugXyz), Update(UnknownId, SlugXyz),
      Update("2", SlugAb) }
StoreBatches == UNION {[1..n -> StoreUpdates] : n \in 0..MaxStoreBatch}
\* the text handed to the string functions
StoreText == <<"A", " ", "b", "!">>

InitStore ==
    /\ file \in StoreFiles
    /\ backups \in StoreDirs
    /\ op = Idle
    /\ input = StoreText
    /\ output = NoOutput
    /\ sessions = NoSessions

\* DataHandler.update_product_slug(record_id, new_slug), called by itself
UpdateProductSlug(record_id, new_slug, env) ==
    /\ op = Idle
    /\ \E written \in {update_product_slug(file, backups, record_id, new_slug, env)} :
           /\ file' = written.file
           /\ backups' = written.backups
           /\ op' = [kind |-> "update", updates |-> <<Update(record_id, new_slug)>>,
                     results |-> <<Result(record_id, written.success, NoError)>>,
                     steps |-> <<Step(file, written.file, TRUE)>>,
                     envs |-> <<env>>, dirs |-> <<backups, written.backups>>]
    /\ UNCHANGED <<input, output, sessions>>

\* the Analyze Slugs button, on a page that lists products, pressed on the date today
AnalyzeSlugPerformance(today) ==
    /\ op = Idle
    /\ load_products(file).rows # <<>>
    /\ \E analysis \in {analyze_slug_performance(file, load_products(file), today)} :
           op' = [kind |-> "analyze", updates |-> <<>>, results |-> <<>>, steps |-> <<>>,
                  analysis |-> analysis, today |-> today]
    /\ UNCHANGED <<file, input, output, sessions, backups>>

\* the inputs of the one interaction of the script run
Opened(inputs) == IF op = Idle /\ output = NoOutput THEN inputs ELSE {}

NextStore ==
    \/ \E updates \in Opened(StoreBatches) :
          \E envs \in [1..Len(updates) -> StoreEnvs] : BulkUpdateSlugs(updates, envs)
    \/ \E r \in Opened({"1", "2"}), s \in {SlugXyz, SlugAbc, SlugAb}, env \in StoreEnvs :
          SaveSlug(r, s, env)
    \/ \E r \in Opened({"1", UnknownId}), s \in {SlugXyz}, env \in StoreEnvs :
          UpdateProductSlug(r, s, env)
    \/ \E r \in Opened({None, "1"}), s \in {SlugXyz, SlugAbc} : CheckSlugAvailability(s, r)
    \/ \E n \in Opened(NameInputs), d \in Dates : SuggestSlug(n, d)
    \/ \E d \in Opened(Dates) : AnalyzeSlugPerformance(d)
    \/ \E go \in Opened({TRUE}) : ExportSlicewpConfig
    \/ \E go \in Opened({TRUE}) : CleanSlug
    \/ \E go \in Opened({TRUE}) : ValidateSlug

SpecStore == InitStore /\ [][NextStore]_vars

(***************************************************************************)
(* The Analyze Slugs button on catalogs with repeated slugs                *)
(***************************************************************************)
\* the most products of a catalog handed to the analysis
MaxProducts == 3
\* the 'URL Slug' cells of those catalogs: none, two that differ in case only,
\* a number and a slug that is too short
AnalyzeCells == {<<>>, SlugAbc, SlugAbcUpper, Slug123, SlugAb}
AnalyzeFiles ==
    UNION { {File(TRUE, [i \in 1..n |-> Row(ToString(i), NameAbc, cells[i])]) :
                cells \in [1..n -> AnalyzeCells]} : n \in 0..MaxProducts }

InitAnalyze ==
    /\ file \in AnalyzeFiles
    /\ op = Idle
    /\ input = <<>>
    /\ output = NoOutput
    /\ sessions = NoSessions
    /\ backups = NoBackups

NextAnalyze ==
    \/ \E d \in Offered(Dates) : AnalyzeSlugPerformance(d)
    \/ Rerun

SpecAnalyze == InitAnalyze /\ [][NextAnalyze]_vars

(***************************************************************************)
(* The string functions, applied to enumerated texts                       *)
(***************************************************************************)
InitText ==
    /\ file = File(TRUE, <<>>)
    /\ op = Idle
    /\ input \in TextInputs
    /\ output = NoOutput
    /\ sessions = NoSessions
    /\ backups = NoBackups

NextText == CleanSlug \/ ValidateSlug

SpecText == InitText /\ [][NextText]_vars

(***************************************************************************)
(* The store as the program reads it                                       *)
(***************************************************************************)
\* the rows load_products returns
Products(f) == load_products(f).rows
\* the products that have a slug, as indexes into Products(f)
WithSlug(f) == {i \in 1..Len(Products(f)) : Products(f)[i].slug.k # "nan"}
\* the slug of row i as text (str() of a number)
SlugText(f, i) == Products(f)[i].slug.v
\* no two products hold slugs that are equal when lower-cased
UniqueSlugs(f) ==
    \A i, j \in WithSlug(f) : i # j => Lower(SlugText(f, i)) # Lower(SlugText(f, j))
\* the lower-cased slugs of the products other than exclude_record_id
AssignedSlugs(f, exclude_record_id) ==
    {Lower(SlugText(f, i)) :
        i \in {k \in WithSlug(f) : exclude_record_id = None
                                    \/ Products(f)[k].record_id # exclude_record_id}}
\* the steps of the operation chain from one file to the next and end in the file
StepsChain ==
    /\ Len(op.steps) = Len(op.updates)
    /\ \A i \in 1..(Len(op.steps) - 1) : op.steps[i + 1].before = op.steps[i].after
    /\ op.steps # <<>> => op.steps[Len(op.steps)].after = file

(***************************************************************************)
(* Claims                                                                  *)
(***************************************************************************)

\* C1: starting from a store whose slugs are pairwise distinct when lower-cased,
\* no Save Slug and no bulk_update_slugs leads to a store in which two products
\* hold slugs that are equal when lower-cased: every operation preserves uniqueness.
C1_UniquenessPreserved == [][UniqueSlugs(file) => UniqueSlugs(file')]_vars

\* C2: a handler writes a proposed slug only after, for that proposal, validate_slug
\* accepted it and check_slug_availability(slug, record_id) returned true on the
\* file as it was then; an invalid or taken proposal is reported as failed with a
\* reason and the file is left as it was.
C2_CommitOnlyAfterChecks ==
    op.kind \in {"bulk", "save"} =>
        /\ StepsChain
        /\ Len(op.results) = Len(op.updates)
        /\ \A i \in 1..Len(op.steps) :
              LET st == op.steps[i]
                  u  == op.updates[i]
                  accepted  == validate_slug(u.new_slug).ok
                  available == check_slug_availability(st.before, u.new_slug, u.record_id)
              IN  /\ (st.wrote \/ st.after # st.before) => (accepted /\ available)
                  /\ (~accepted \/ ~available) =>
                        /\ st.after = st.before
                        /\ ~st.wrote
                        /\ ~op.results[i].success
                        /\ op.results[i].error # NoError

\* C2 witness: one batch committed a slug and rejected another as taken
C2_Witness ==
    /\ op.kind = "bulk"
    /\ \E i, j \in 1..Len(op.steps) :
          /\ op.steps[i].wrote /\ op.results[i].success
          /\ op.steps[i].after # op.steps[i].before
          /\ op.results[j].error = ErrTaken

\* C3: bulk_update_slugs returns one result per update, in the order of the updates.
C3_OneResultPerItem ==
    op.kind = "bulk" =>
        /\ Len(op.results) = Len(op.updates)
        /\ \A i \in 1..Len(op.updates) : op.results[i].record_id = op.updates[i].record_id

\* C3 witness: a batch of a success followed by an item with a missing field
C3_Witness ==
    /\ op.kind = "bulk"
    /\ Len(op.updates) >= 2
    /\ op.results[1].success
    /\ op.results[2].error = ErrMissing

\* the last update of the batch that succeeded for record_id, 0 if none did
LastSuccess(record_id) ==
    LET hits == {i \in 1..Len(op.results) :
                    op.results[i].success /\ op.updates[i].record_id = record_id}
    IN  IF hits = {} THEN 0 ELSE CHOOSE i \in hits : \A j \in hits : i >= j

\* C4: after a batch the store holds the same products as before it, each with
\* the slug of the last item reported success for it, or with the slug it had.
C4_StoreDiffersBySuccesses ==
    (op.kind = "bulk" /\ op.steps # <<>>) =>
        LET before == op.steps[1].before
        IN  /\ Len(Products(file)) = Len(Products(before))
            /\ \A i \in 1..Len(Products(before)) :
                  LET record_id == Products(before)[i].record_id
                      last == LastSuccess(record_id)
                  IN  /\ Products(file)[i].record_id = record_id
                      /\ last = 0 => Products(file)[i].slug.k = Products(before)[i].slug.k
                                     /\ SlugText(file, i) = SlugText(before, i)
                      /\ last # 0 => Products(file)[i].slug.k # "nan"
                                     /\ SlugText(file, i) = op.updates[last].new_slug

\* C5: per bulk item the first check that applies decides: a missing field, then
\* the validator (its reason carried), then availability with the item's own
\* record excluded; update_product_slug is called only when all three pass.
C5_CheckOrder ==
    op.kind = "bulk" =>
        /\ StepsChain
        /\ Len(op.results) = Len(op.updates)
        /\ \A i \in 1..Len(op.updates) :
              LET st == op.steps[i]
                  u  == op.updates[i]
                  r  == op.results[i]
              IN  IF u.record_id = None \/ u.new_slug = <<>>
                  THEN r.error = ErrMissing /\ ~r.success /\ ~st.wrote
                  ELSE IF ~validate_slug(u.new_slug).ok
                  THEN /\ r.error = ErrInvalid(validate_slug(u.new_slug).message)
                       /\ ~r.success /\ ~st.wrote
                  ELSE IF ~check_slug_availability(st.before, u.new_slug, u.record_id)
                  THEN r.error = ErrTaken /\ ~r.success /\ ~st.wrote
                  ELSE st.wrote /\ r.error \in {NoError, ErrDatabase}

\* C5 witness: a batch with an item rejected as invalid and an item rejected as taken
C5_Witness ==
    /\ op.kind = "bulk"
    /\ \E i, j \in 1..Len(op.results) :
          /\ op.results[i].error = ErrInvalid(MsgTooShort)
          /\ op.results[j].error = ErrTaken
          /\ op.updates[j].record_id \in ListedIds(file)

\* C6: on a store that can be read, check_slug_availability(slug, exclude_id) is
\* true exactly when the lower-cased slug is not among the lower-cased slugs of
\* the products other than exclude_id.
C6_AvailableIffAbsent ==
    (op.kind = "check" /\ load_products(file).columns) =>
        (op.results[1].success <=>
            Lower(op.updates[1].new_slug)
                \notin AssignedSlugs(file, op.updates[1].record_id))

\* product i is the only one holding its slug (compared lower-cased)
SoleHolder(f, i) ==
    /\ i \in WithSlug(f)
    /\ \A j \in WithSlug(f) : j # i => Lower(SlugText(f, j)) # Lower(SlugText(f, i))

\* C7: for a product that is the only holder of its slug s, availability of s
\* with the product excluded is true and without exclusion is false; saving
\* its own valid slug again succeeds and leaves the store as it was.
C7_SelfExclusion ==
    /\ op.kind = "check" =>
          \A i \in 1..Len(Products(file)) :
              (/\ SoleHolder(file, i)
               /\ op.updates[1].new_slug = SlugText(file, i)
               /\ op.updates[1].record_id = Products(file)[i].record_id)
              => /\ op.results[1].success
                 /\ ~check_slug_availability(file, SlugText(file, i), None)
    /\ op.kind = "save" =>
          \A i \in 1..Len(Products(op.steps[1].before)) :
              (/\ SoleHolder(op.steps[1].before, i)
               /\ op.updates[1].new_slug = SlugText(op.steps[1].before, i)
               /\ op.updates[1].record_id = Products(op.steps[1].before)[i].record_id
               /\ validate_slug(op.updates[1].new_slug).ok)
              => /\ op.results[1].success
                 /\ Products(file) = Products(op.steps[1].before)

\* the strings the slug format admits: only lowercase letters, digits and hyphens,
\* 3 to 100 characters, no hyphen at either end, no '--', not a reserved word
WellFormed(s) ==
    /\ \A i \in 1..Len(s) : s[i] \in SlugChars
    /\ Len(s) >= MinSlugLen /\ Len(s) <= MaxSlugLen
    /\ s[1] # "-" /\ s[Len(s)] # "-"
    /\ ~HasDoubleHyphen(s)
    /\ s \notin reserved_words

\* C8: validate_slug accepts exactly the well-formed strings.
C8_AcceptsExactlyWellFormed ==
    output.fn = "validate_slug" => (output.verdict.ok <=> WellFormed(input))

\* the reason of the first rule, in the documented order, that s breaks
FirstBrokenRule(s) ==
    IF s = <<>> THEN MsgEmpty
    ELSE IF Len(s) < MinSlugLen THEN MsgTooShort
    ELSE IF Len(s) > MaxSlugLen THEN MsgTooLong
    ELSE IF \E i \in 1..Len(s) : s[i] \notin SlugChars THEN MsgChars
    ELSE IF s[1] = "-" \/ s[Len(s)] = "-" THEN MsgHyphenEnds
    ELSE IF HasDoubleHyphen(s) THEN MsgDoubleHyphen
    ELSE IF s \in reserved_words THEN MsgReserved(s)
    ELSE MsgValid

\* C9: validate_slug reports the first rule broken, in the order empty, length,
\* character set, hyphen at an end, consecutive hyphens, reserved word.
C9_FirstFailingRule ==
    output.fn = "validate_slug" => output.verdict.message = FirstBrokenRule(input)

\* C10: clean_slug is idempotent: cleaning its result again returns it unchanged.
C10_CleanIdempotent ==
    output.fn = "clean_slug" => clean_slug(output.text) = output.text

\* C10 witness: a text that clean_slug changed into a non-empty slug
C10_Witness ==
    /\ output.fn = "clean_slug"
    /\ output.text # <<>>
    /\ output.text # input
    /\ \E i \in 1..Len(input) : input[i] \in Whitespace

\* C11: every slug validate_slug accepts is a fixed point of clean_slug.
C11_ValidIsFixedPoint ==
    (output.fn = "validate_slug" /\ output.verdict.ok) => clean_slug(input) = input

\* the transform as documented: lower-case, each whitespace run to one hyphen,
\* delete what is outside [a-z0-9-], collapse hyphen runs, trim hyphens
Documented(text) ==
    LET lowered   == [i \in 1..Len(text) |-> LowerChar(text[i])]
        hyphened  == SubRuns(lowered, Whitespace, "-")
        kept      == SelectSeq(hyphened, LAMBDA c : c \in SlugChars)
        collapsed == SubRuns(kept, {"-"}, "-")
    IN  Strip(collapsed, {"-"})

\* C12: for every text clean_slug returns a string over [a-z0-9-] without a
\* hyphen at either end and without two hyphens in a row, equal to the documented
\* transform of the text; its length is not limited.
C12_CleanOutputCanonical ==
    output.fn = "clean_slug" =>
        /\ \A i \in 1..Len(output.text) : output.text[i] \in SlugChars
        /\ output.text # <<>> => output.text[1] # "-" /\ output.text[Len(output.text)] # "-"
        /\ ~HasDoubleHyphen(output.text)
        /\ output.text = Documented(input)
        /\ Len(input) > MaxSlugLen /\ (\A i \in 1..Len(input) : input[i] \in SlugChars \ {"-"})
              => Len(output.text) = Len(input)

\* C12 witness: a text with an upper-case letter, whitespace and a deleted
\* character, cleaned into a slug that holds a hyphen
C12_Witness ==
    /\ output.fn = "clean_slug"
    /\ \E i, j, k \in 1..Len(input) :
          input[i] \in Whitespace /\ input[j] = "!" /\ input[k] = "A"
    /\ \E i \in 1..Len(output.text) : output.text[i] = "-"

\* the name suggest_slug was given is neither missing nor empty
NameGiven == op.name.k # "nan" /\ op.name.v # <<>>
\* the numbers i for which base-i is not among the slugs taken
FreeSuffixes(taken, base) ==
    {i \in FirstSuffix..LastSuffix : Numbered(base, i) \notin taken}

\* C13: on a store that can be read, for a name whose cleaned form base has at
\* least 3 characters, suggest_slug returns base when no product holds it, and otherwise base-i for the least i
\* in 2..99 such that no product holds base-i; a result of either form is held
\* by no product.
C13_SuggestFirstAvailable ==
    (/\ op.kind = "suggest"
     /\ load_products(file).columns
     /\ NameGiven
     /\ Len(clean_slug(op.name.v)) >= MinSuggestionLen) =>
        \A base \in {clean_slug(op.name.v)}, taken \in {AssignedSlugs(file, None)} :
            \A free \in {FreeSuffixes(taken, base)} :
                /\ base \notin taken => op.slug = base
                /\ (base \in taken /\ free # {}) =>
                      op.slug = Numbered(base, CHOOSE i \in free : \A j \in free : i <= j)
                /\ (op.slug = base
                        \/ \E i \in FirstSuffix..LastSuffix : op.slug = Numbered(base, i))
                      => op.slug \notin taken

\* C14: suggest_slug returns the empty string exactly when the name is missing or
\* empty or its cleaned form has fewer than 3 characters, and then it has made
\* no availability check.
C14_EmptyIffNoBase ==
    op.kind = "suggest" =>
        /\ op.slug = <<>> <=>
              (~NameGiven \/ Len(clean_slug(op.name.v)) < MinSuggestionLen)
        /\ op.slug = <<>> => op.updates = <<>>

\* C14 witness: a name that is given but cleans to fewer than 3 characters
C14_Witness ==
    /\ op.kind = "suggest"
    /\ NameGiven
    /\ Len(clean_slug(op.name.v)) \in 1..(MinSuggestionLen - 1)
    /\ op.slug = <<>>
    /\ op.updates = <<>>

\* C15: suggest_slug makes at most 99 availability checks, of base and then of
\* base-2 .. base-99 in order; when base and all 98 numbered slugs are held by
\* products it returns base-<MMDD>, which is not among the slugs it checked.
C15_BoundedChecksThenFallback ==
    op.kind = "suggest" =>
        \A base \in {clean_slug(op.name.v)}, taken \in {AssignedSlugs(file, None)} :
            /\ Len(op.updates) <= 1 + (LastSuffix - FirstSuffix + 1)
            /\ \A k \in 1..Len(op.updates) :
                  op.updates[k].new_slug = Tried(base, LastSuffix)[k]
            /\ (/\ NameGiven
                /\ Len(base) >= MinSuggestionLen
                /\ base \in taken
                /\ FreeSuffixes(taken, base) = {})
                 => /\ op.slug = Dated(base, op.today)
                    /\ \A k \in 1..Len(op.updates) : op.updates[k].new_slug # op.slug

\* C15 witness: every slug of the loop is held by a product, and so is the dated
\* slug that is returned
C15_Witness ==
    /\ op.kind = "suggest"
    /\ Len(op.updates) = 1 + (LastSuffix - FirstSuffix + 1)
    /\ op.slug = Dated(clean_slug(op.name.v), op.today)
    /\ \E taken \in {AssignedSlugs(file, None)} :
          /\ \A k \in 1..Len(op.updates) : op.updates[k].new_slug \in taken
          /\ op.slug \in taken

\* the slug the product record_id holds in f, as a set: empty when it holds none
HeldBy(f, record_id) ==
    {SlugText(f, i) : i \in {k \in WithSlug(f) : Products(f)[k].record_id = record_id}}

\* C16: right after a successful update_product_slug(r, s), on the file it left,
\* check_slug_availability(s) is false, and check_slug_availability of the slug r
\* held before is true when no product holds that slug any more.
C16_AvailabilityNeverStale ==
    op.kind \in {"bulk", "save"} =>
        \A i \in 1..Len(op.steps) :
            op.results[i].success =>
                LET after == op.steps[i].after
                    u     == op.updates[i]
                IN  /\ ~check_slug_availability(after, u.new_slug, None)
                    /\ \A old \in HeldBy(op.steps[i].before, u.record_id) :
                          Lower(old) \notin AssignedSlugs(after, None)
                              => check_slug_availability(after, old, None)

\* both sessions saved the same slug, each to its own product
BothSavedSameSlug ==
    /\ sessions["A"].pc = "done" /\ sessions["A"].success
    /\ sessions["B"].pc = "done" /\ sessions["B"].success
    /\ sessions["A"].record_id # sessions["B"].record_id
    /\ sessions["A"].new_slug = sessions["B"].new_slug

\* C17: the check and the write of a session are separate steps, so two sessions
\* can both pass the check for one slug and both write it; from a store with
\* pairwise different slugs this race is the only way to a store in which two
\* products hold the same slug.
C17_DuplicateOnlyByRace == ~UniqueSlugs(file) => BothSavedSameSlug

\* C17 witness: both sessions passed the check, both writes succeeded, and two
\* different products hold the same slug
C17_Witness ==
    /\ BothSavedSameSlug
    /\ ~UniqueSlugs(file)
    /\ \E i, j \in WithSlug(file) :
          /\ Products(file)[i].record_id = sessions["A"].record_id
          /\ Products(file)[j].record_id = sessions["B"].record_id
          /\ SlugText(file, i) = sessions["A"].new_slug
          /\ SlugText(file, j) = sessions["A"].new_slug

\* rows a and b of two tables hold the same value in a column: both missing, or
\* both present with the same text
SameCell(a, b) == (a.k = "nan") = (b.k = "nan") /\ a.v = b.v

\* C18: a successful update_product_slug(r, s) leaves the store with the same
\* products in the same order, each with the record_id and Name it had, and every
\* product other than r with the URL Slug it had.
C18_OnlyTargetSlugChanges ==
    op.kind \in {"bulk", "save"} =>
        \A i \in 1..Len(op.steps) :
            op.results[i].success =>
                LET before == Products(op.steps[i].before)
                    after  == Products(op.steps[i].after)
                IN  /\ Len(after) = Len(before)
                    /\ \A j \in 1..Len(before) :
                          /\ after[j].record_id = before[j].record_id
                          /\ SameCell(after[j].name, before[j].name)
                          /\ before[j].record_id # op.updates[i].record_id
                                => SameCell(after[j].slug, before[j].slug)

\* the file cannot be read: load_products returns the frame without columns
Unreadable(f) == ~load_products(f).columns

Slugged(f) == SelectSeq(Products(f), LAMBDA product : product.slug.k # "nan")

\* C20: export_slicewp_config lists the products that have a slug, once each and
\* in table order, each with direct_url {base_url}/{slug}/ and template
\* {base_url}/slicewp_affiliate/{affiliate_id}/{slug}/, and the direct_url is
\* what generate_affiliate_url returns for the stored slug without affiliate id.
C20_ExportMatchesStore ==
    op.kind = "export" =>
        /\ Len(op.products) = Len(Slugged(file))
        /\ \A k \in 1..Len(op.products) :
              LET listed == op.products[k]
                  stored == Slugged(file)[k]
              IN  /\ listed.id = stored.record_id
                  /\ listed.slug = stored.slug
                  /\ listed.direct_url = BaseUrl \o <<"/">> \o stored.slug.v \o <<"/">>
                  /\ listed.affiliate_url_template =
                        BaseUrl \o AffiliatePath \o AffiliateIdPlaceholder \o <<"/">>
                                \o stored.slug.v \o <<"/">>
                  /\ listed.direct_url = generate_affiliate_url(stored.slug, <<>>)

\* the slug the table df holds for the product record_id, as a set of texts
HeldIn(df, record_id) ==
    {df.rows[i].slug.v : i \in {k \in 1..Len(df.rows) :
                                   /\ df.rows[k].record_id = record_id
                                   /\ df.rows[k].slug.k # "nan"}}
\* session late holds a table loaded before session early saved: early has
\* returned success for another product, the store holds early's slug and the
\* table of late does not
LoadedBeforeSave(late, early) ==
    /\ late # early
    /\ sessions[late].pc = "loaded"
    /\ sessions[early].pc = "done" /\ sessions[early].success
    /\ sessions[late].record_id # sessions[early].record_id
    /\ HeldBy(file, sessions[early].record_id) = {sessions[early].new_slug}
    /\ HeldIn(sessions[late].df, sessions[early].record_id) # {sessions[early].new_slug}

\* C21: when a session saves a table it loaded before another session saved a
\* slug for a different product, the save puts back what that product held in
\* the table: the other session's slug, reported as saved, is no longer in the
\* store, and the file is the table of the session that saved last.
C21_LaterSaveOverwritesEarlier ==
    [][\A late, early \in SessionIds :
          (LoadedBeforeSave(late, early) /\ sessions'[late].pc = "done") =>
              /\ sessions'[late].success /\ sessions'[early].success
              /\ sessions[early].new_slug \notin HeldBy(file', sessions[early].record_id)
              /\ \A i \in 1..Len(file'.rows) :
                    file'.rows[i].slug = FormatCell(sessions[late].df.rows[i].slug)]_vars

\* C21 witness: both sessions returned success for different products, and the
\* product of the one that saved 'xyz' does not hold it while the other product
\* holds the slug saved for it
C21_Witness ==
    \E late, early \in SessionIds :
        /\ sessions[late].pc = "done" /\ sessions[late].success
        /\ sessions[early].pc = "done" /\ sessions[early].success
        /\ sessions[late].record_id # sessions[early].record_id
        /\ sessions[early].new_slug = SlugXyz
        /\ SlugXyz \notin HeldBy(file, sessions[early].record_id)
        /\ HeldBy(file, sessions[late].record_id) = {sessions[late].new_slug}

\* item i of the batch passed the checks on the file it met and names a product of it
ReachedSave(i) ==
    /\ op.updates[i].record_id # None /\ op.updates[i].new_slug # <<>>
    /\ validate_slug(op.updates[i].new_slug).ok
    /\ check_slug_availability(op.steps[i].before, op.updates[i].new_slug,
                               op.updates[i].record_id)
    /\ op.updates[i].record_id \in ListedIds(op.steps[i].before)

\* C22: when the write of products.csv is refused for a bulk item, the item is
\* reported with success false and 'Failed to update database', save_products
\* was entered once for it (one backup of the file, no second attempt), and
\* every later item of the batch has its result, a later item that reaches
\* the save on a disk that accepts the write being saved.
C22_WriteFailureIsolated ==
    op.kind = "bulk" =>
        /\ Len(op.results) = Len(op.updates)
        /\ \A i \in 1..Len(op.updates) :
              (ReachedSave(i) /\ ~op.envs[i].write_ok) =>
                  /\ ~op.results[i].success
                  /\ op.results[i].error = ErrDatabase
                  /\ op.steps[i].wrote
                  /\ op.dirs[i + 1] = create_backup(op.dirs[i], op.steps[i].before,
                                                    Now(op.dirs[i], op.envs[i].tick))
                  /\ \A j \in (i + 1)..Len(op.updates) :
                        /\ op.results[j].record_id = op.updates[j].record_id
                        /\ (ReachedSave(j) /\ op.envs[j].write_ok) =>
                              /\ op.results[j].success
                              /\ HeldBy(op.steps[j].after, op.updates[j].record_id)
                                    = {op.updates[j].new_slug}

\* C22 witness: the write of the first item was refused after its backup was
\* made, and the second item was saved
C22_Witness ==
    /\ op.kind = "bulk"
    /\ Len(op.updates) = 2
    /\ ReachedSave(1) /\ ~op.envs[1].write_ok
    /\ op.results[1].error = ErrDatabase
    /\ Len(op.dirs[2].files) = Len(op.dirs[1].files) + 1
    /\ ReachedSave(2) /\ op.results[2].success
    /\ file # op.steps[1].before

\* the products of f whose slug is the slug of another product of f, compared
\* as the values are
Duplicated(f) ==
    {i \in WithSlug(f) : \E j \in WithSlug(f) : j # i /\ Products(f)[j].slug = Products(f)[i].slug}

\* C23: for every catalog analyze_slug_performance reports as duplicate_slugs the
\* number of products whose slug is the slug of another product, and
\* products_with_slugs + products_without_slugs = total_products.
C23_DuplicateCountExact ==
    op.kind = "analyze" =>
        /\ ~op.analysis.raised
        /\ op.analysis.duplicate_slugs = Cardinality(Duplicated(file))
        /\ op.analysis.products_with_slugs + op.analysis.products_without_slugs
              = op.analysis.total_products
        /\ op.analysis.total_products = Len(Products(file))

\* C24: every slug suggest_slug returns, unless it is the empty string, is
\* accepted by validate_slug, whatever the name and the catalog.
C24_SuggestionsAreValid ==
    (op.kind = "suggest" /\ op.slug # <<>>) => validate_slug(op.slug).ok

\* items i and i + 1 of the batch propose the same valid slug for two different
\* products of the store, and no product holds that slug when item i is reached
SameFreeSlugTwice(i) ==
    /\ op.updates[i].new_slug = op.updates[i + 1].new_slug
    /\ validate_slug(op.updates[i].new_slug).ok
    /\ op.updates[i].record_id # op.updates[i + 1].record_id
    /\ {op.updates[i].record_id, op.updates[i + 1].record_id}
          \subseteq ListedIds(op.steps[i].before)
    /\ Lower(op.updates[i].new_slug) \notin AssignedSlugs(op.steps[i].before, None)

\* C25: when two items of one batch, next to each other, propose the same valid
\* and free slug for two different products, the earlier item succeeds and the
\* later one fails with 'Slug already exists', its check reading the file the
\* earlier one wrote.
C25_InBatchDuplicateRejected ==
    op.kind = "bulk" =>
        \A i \in 1..(Len(op.updates) - 1) :
            SameFreeSlugTwice(i) =>
                /\ op.results[i].success
                /\ op.steps[i + 1].before = op.steps[i].after
                /\ ~op.results[i + 1].success
                /\ op.results[i + 1].error = ErrTaken
                /\ ~op.steps[i + 1].wrote

\* C26: update_product_slug for a record_id that no product of the store has
\* returns false, and a bulk item for such a record_id that passed the validator
\* and the availability check is reported 'Failed to update database'; the file
\* and the backup directory are left as they were.
C26_UnknownRecordLeavesStore ==
    /\ (op.kind = "update"
            /\ op.updates[1].record_id \notin ListedIds(op.steps[1].before)) =>
              /\ ~op.results[1].success
              /\ op.steps[1].after = op.steps[1].before
              /\ op.dirs[2] = op.dirs[1]
    /\ op.kind = "bulk" =>
          \A i \in 1..Len(op.updates) :
              (/\ op.updates[i].record_id # None /\ op.updates[i].new_slug # <<>>
               /\ validate_slug(op.updates[i].new_slug).ok
               /\ check_slug_availability(op.steps[i].before, op.updates[i].new_slug,
                                          op.updates[i].record_id)
               /\ op.updates[i].record_id \notin ListedIds(op.steps[i].before))
              => /\ op.steps[i].wrote
                 /\ ~op.results[i].success
                 /\ op.results[i].error = ErrDatabase
                 /\ op.steps[i].after = op.steps[i].before
                 /\ op.dirs[i + 1] = op.dirs[i]

\* C26 witness: a bulk item for an unknown record_id, on a catalog with a backup
\* directory and a disk that would have taken the save, reported as failed with
\* the file and the directory as they were
C26_Witness ==
    /\ op.kind = "bulk"
    /\ \E i \in 1..Len(op.updates) :
          /\ op.updates[i].record_id = UnknownId
          /\ op.results[i].error = ErrDatabase
          /\ op.steps[i].before.exists /\ op.dirs[i].writable /\ op.envs[i].write_ok
          /\ op.steps[i].after = op.steps[i].before
          /\ op.dirs[i + 1] = op.dirs[i]

\* the step ran one of clean_slug, validate_slug, check_slug_availability,
\* suggest_slug, analyze_slug_performance, export_slicewp_config
ReadOnlyCall ==
    \/ output' # output /\ output'.fn \in {"clean_slug", "validate_slug"}
    \/ op' # op /\ op'.kind \in {"check", "suggest", "analyze", "export"}
\* the step ran a handler in which update_product_slug was called and reached
\* save_products
SavingCall ==
    /\ op' # op /\ op'.kind \in {"bulk", "save", "update"}
    /\ \E i \in 1..Len(op'.steps) :
          /\ op'.steps[i].wrote
          /\ op'.updates[i].record_id \in ListedIds(op'.steps[i].before)

\* C27: a call of clean_slug, validate_slug, check_slug_availability,
\* suggest_slug, analyze_slug_performance or export_slicewp_config leaves
\* products.csv and the backup directory as they were; they change only in a
\* handler whose update_product_slug reached save_products.
C27_ReadOnlyFunctions ==
    [][/\ ReadOnlyCall => (file' = file /\ backups' = backups)
       /\ (file' # file \/ backups' # backups) => SavingCall]_vars

\* C27 witness: the analysis has made its suggestions on a catalog whose backup
\* directory accepts files and is still empty
C27_Witness ==
    /\ op.kind = "analyze"
    /\ op.analysis.suggestions # <<>>
    /\ file.exists
    /\ backups = Dir(TRUE, <<>>)

\* step i of the handler reached save_products: update_product_slug was called
\* for a product of the file it met
Saved(i) ==
    /\ op.steps[i].wrote
    /\ op.updates[i].record_id \in ListedIds(op.steps[i].before)
\* the last n elements of seq
Newest(seq, n) == SubSeq(seq, Len(seq) - n + 1, Len(seq))

C28_FailedBackupWitness ==
    /\ op.kind = "save"
    /\ Saved(1)
    /\ ~op.dirs[1].writable
    /\ op.results[1].success
    /\ op.steps[1].after # op.steps[1].before

====
